---- MODULE Spec2Model ----
(***************************************************************************)
(* Watchlist persistence layer of movie_mcp: the FastAPI handlers of       *)
(* routes.py (add, update, delete) over the three SQLite tables of db.py,  *)
(* with the remote details fetch of tmdb_client.py.                        *)
(*                                                                         *)
(* A table is the sequence of its rows in rowid order.  A request runs on  *)
(* its own connection (db.get_db): `db` is the committed content of        *)
(* ./mcp.db, `tx` the connection's view with its uncommitted writes.       *)
(* Every column value except film_id is a string, so that SQL NULL can     *)
(* stand in any column; numbers are written as numerals.  A calendar date  *)
(* is identified with its ISO text (what sqlite3's default adapter stores  *)
(* for a datetime.date).  Chars gives the characters of a genre name, on   *)
(* which GROUP_CONCAT and str.split act.                                   *)
(***************************************************************************)
EXTENDS Integers, Sequences, FiniteSets, TLC

VARIABLES db, last, nOps,
          RATE_LIMIT_REMAINING, RATE_LIMIT_RESET_TIME, now, calls,
          conn, tool, applied

\* the watchlist service, and the remote client with its clock
storeVars == <<db, last, nOps>>

clientVars == <<RATE_LIMIT_REMAINING, RATE_LIMIT_RESET_TIME, now, calls>>

vars ==
    <<db, last, nOps, RATE_LIMIT_REMAINING, RATE_LIMIT_RESET_TIME, now, calls,
      conn, tool, applied>>

----------------------------------------------------------------------------
(* Bounds of the model *)

MaxGenres == 2
MaxOps == 3

\* the ticks of the clock of the remote client
MaxTime == 2

----------------------------------------------------------------------------
(* Values *)

\* Python None / SQL NULL
NULL == "NULL"

\* the film ids the requests name; rows are addressed by film_id alone, so
\* two ids show a film and another film
FilmIds == {1, 2}

\* Literal["movie", "tv"] of the route parameters
MediaTypes == {"movie", "tv"}

\* Literal[...] of FilmBase.status, CHECK(status IN ...) of Film
Statuses == {"PlanToWatch", "Watching", "Watched", "Dropped", "OnHold"}

\* CHECK(type IN ('movie', 'series'))
FilmTypes == {"movie", "series"}

\* watched dates a PATCH body may carry
Dates == {"2024-05-01"}

\* genre names the remote service may return, one of them with a comma
GenreNames == {"D", "S,F"}

\* the characters of a name
Chars == [n \in GenreNames |-> IF n = "D" THEN <<"D">> ELSE <<"S", ",", "F">>]

\* dict.get(key, default)
Get(item, key, default) == IF key \in DOMAIN item THEN item[key] ELSE default

\* Python truthiness of an Optional[str]
Truthy(v) == v # NULL /\ v # ""

----------------------------------------------------------------------------
(* tmdb_client.py: normalisation of the remote payload *)

\* datetime.strptime(s, "%Y-%m-%d").date(), then stored as ISO text:
\* the strings strptime accepts, with the ISO text of the date they denote
StrptimeTable ==
    [x \in {"2021-10-22", "2002-06-09", "2021-1-5"} |->
        IF x = "2021-1-5" THEN "2021-01-05" ELSE x]

\* Variant of _parse_release_date: the text is kept when strptime rejects it
_parse_release_date_unchecked(release_date_str) ==
    IF ~Truthy(release_date_str) THEN NULL
    ELSE IF release_date_str \in DOMAIN StrptimeTable
         THEN StrptimeTable[release_date_str]
         ELSE release_date_str

_parse_release_date(release_date_str) ==
    IF ~Truthy(release_date_str) THEN NULL
    ELSE IF release_date_str \in DOMAIN StrptimeTable
         THEN StrptimeTable[release_date_str]
         ELSE NULL

\* Variant of _map_tmdb_to_filmbase: the keys of the two media types are
\* exchanged
_map_tmdb_to_filmbase_swapped(item, media_type) ==
    LET title_key == IF media_type = "movie" THEN "name" ELSE "title"
        release_date_key ==
            IF media_type = "movie" THEN "first_air_date" ELSE "release_date"
    IN  [film_id      |-> item["id"],
         title        |-> Get(item, title_key, "N/A"),
         release_date |-> _parse_release_date(Get(item, release_date_key, NULL)),
         type         |-> IF media_type = "movie" THEN "movie" ELSE "series",
         status       |-> "PlanToWatch",
         watched_date |-> NULL]

_map_tmdb_to_filmbase(item, media_type) ==
    LET title_key == IF media_type = "movie" THEN "title" ELSE "name"
        release_date_key ==
            IF media_type = "movie" THEN "release_date" ELSE "first_air_date"
    IN  [film_id      |-> item["id"],
         title        |-> Get(item, title_key, "N/A"),
         release_date |-> _parse_release_date(Get(item, release_date_key, NULL)),
         type         |-> IF media_type = "movie" THEN "movie" ELSE "series",
         status       |-> "PlanToWatch",
         watched_date |-> NULL]

\* the body the remote service answers GET /{media_type}/{tmdb_id} with; it
\* carries the remote's own status (the production status of the title)
DetailsBody(media_type, tmdb_id, genre_names) ==
    LET genres == [i \in 1..Len(genre_names) |-> [id |-> i, name |-> genre_names[i]]]
    IN  IF media_type = "movie"
        THEN [id |-> tmdb_id, title |-> "Dune", release_date |-> "2021-10-22",
              runtime |-> "155", overview |-> "plot", vote_average |-> "8.0",
              status |-> "Released", watched_date |-> "2021-10-22",
              poster_path |-> "/p.jpg", external_ids |-> [imdb_id |-> "tt1"],
              genres |-> genres]
        ELSE [id |-> tmdb_id, name |-> "The Wire", first_air_date |-> "2002-06-09",
              episode_run_time |-> <<"60">>, overview |-> "plot", vote_average |-> "9.0",
              external_ids |-> [imdb_id |-> NULL], status |-> "Ended",
              genres |-> genres]

\* the genre lists of the bodies: D, then S,F, then D, ... up to MaxGenres
\* names, and the same lists with the last name missing (null)
NameAt(i) == IF i % 2 = 1 THEN "D" ELSE "S,F"

RemoteGenreLists ==
    {[i \in 1..n |-> NameAt(i)] : n \in 0..MaxGenres}
    \cup {[i \in 1..n |-> IF i = n THEN NULL ELSE NameAt(i)] : n \in 1..MaxGenres}

\* what awaiting _make_request can end in: the 200 body, an HTTPStatusError
\* (raise_for_status on a non-200 answer) or a transport error of httpx
RemoteAnswers(media_type, tmdb_id) ==
    {[outcome |-> "ok", status |-> 200, body |-> DetailsBody(media_type, tmdb_id, g)] :
        g \in RemoteGenreLists}
    \cup {[outcome |-> "HTTPStatusError", status |-> 404, body |-> NULL]}
    \cup {[outcome |-> "ConnectError", status |-> 0, body |-> NULL]}

\* f"https://image.tmdb.org/t/p/w500{poster_path}"
PosterUrl == [p \in {"/p.jpg"} |-> "https://image.tmdb.org/t/p/w500/p.jpg"]

\* get_details after the request has returned details_data
get_details(media_type, details_data) ==
    LET film_base == _map_tmdb_to_filmbase(details_data, media_type)
        imdb_id == Get(Get(details_data, "external_ids", <<>>), "imdb_id", NULL)
        runtime == IF media_type = "movie"
                   THEN Get(details_data, "runtime", NULL)
                   ELSE IF "episode_run_time" \in DOMAIN details_data
                           /\ details_data["episode_run_time"] # <<>>
                        THEN details_data["episode_run_time"][1]
                        ELSE NULL
        poster_path == Get(details_data, "poster_path", NULL)
        meta_data == [imdb_id    |-> imdb_id,
                      runtime    |-> runtime,
                      plot       |-> Get(details_data, "overview", NULL),
                      rating     |-> Get(details_data, "vote_average", NULL),
                      poster_url |-> IF Truthy(poster_path)
                                     THEN PosterUrl[poster_path]
                                     ELSE NULL]
        gs == Get(details_data, "genres", <<>>)
        genres == [i \in 1..Len(gs) |-> gs[i]["name"]]
    IN  [film_base |-> film_base, meta_data |-> meta_data, genres |-> genres]

----------------------------------------------------------------------------
(* models.py: pydantic validation *)

\* FilmBase(...) and its subclass WatchlistItem(...) accept the fields:
\* title: str, type and status required Literals, the dates Optional
FilmBaseValid(r) ==
    /\ r.title # NULL
    /\ r.type \in FilmTypes
    /\ r.status \in Statuses

\* the exception get_details raises on a 200 body, or NULL
get_details_raises(media_type, details_data) ==
    IF "id" \notin DOMAIN details_data THEN "KeyError"
    ELSE IF ~FilmBaseValid(_map_tmdb_to_filmbase(details_data, media_type))
         THEN "ValidationError"
    ELSE IF \E i \in 1..Len(Get(details_data, "genres", <<>>)) :
                "name" \notin DOMAIN details_data["genres"][i]
         THEN "KeyError"
    ELSE NULL

----------------------------------------------------------------------------
(* db.py: the three tables and the SQL statements run on them.  A statement *)
(* yields the tables after it, the cursor's rowcount and the exception it   *)
(* raises (NULL when none).  db.py never issues PRAGMA foreign_keys, so the *)
(* FOREIGN KEY clauses are not enforced.                                    *)

create_tables == [Film |-> <<>>, Meta |-> <<>>, Genre |-> <<>>]

\* a CHECK constraint is violated only when its expression is false;
\* NULL IN (...) is NULL, which passes
CheckIn(v, S) == v = NULL \/ v \in S

Done(t, n) == [tables |-> t, rowcount |-> n, err |-> NULL]

Fails(t, e) == [tables |-> t, rowcount |-> -1, err |-> e]

\* Variant of InsertFilm: film_id is not declared PRIMARY KEY
InsertFilmNoKey(t, row) ==
    IF row.title = NULL THEN Fails(t, "IntegrityError")
    ELSE IF ~CheckIn(row.type, FilmTypes) THEN Fails(t, "IntegrityError")
    ELSE IF ~CheckIn(row.status, Statuses) THEN Fails(t, "IntegrityError")
    ELSE LET IsBefore(r) == r.film_id < row.film_id
             IsNotBefore(r) == r.film_id >= row.film_id
         IN  Done([t EXCEPT !.Film = SelectSeq(@, IsBefore) \o <<row>>
                                     \o SelectSeq(@, IsNotBefore)], 1)

\* Film's rowid is film_id (INTEGER PRIMARY KEY): rows are kept in id order
InsertFilm(t, row) ==
    IF \E i \in 1..Len(t.Film) : t.Film[i].film_id = row.film_id
    THEN Fails(t, "IntegrityError")                       \* PRIMARY KEY
    ELSE IF row.title = NULL THEN Fails(t, "IntegrityError")  \* NOT NULL
    ELSE IF ~CheckIn(row.type, FilmTypes) THEN Fails(t, "IntegrityError")
    ELSE IF ~CheckIn(row.status, Statuses) THEN Fails(t, "IntegrityError")
    ELSE LET IsBefore(r) == r.film_id < row.film_id
             IsAfter(r) == r.film_id > row.film_id
         IN  Done([t EXCEPT !.Film = SelectSeq(@, IsBefore) \o <<row>>
                                     \o SelectSeq(@, IsAfter)], 1)

\* meta_id AUTOINCREMENT: the new row comes last
InsertMeta(t, row) == Done([t EXCEPT !.Meta = Append(@, row)], 1)

\* genre_id AUTOINCREMENT; name TEXT NOT NULL
InsertGenre(t, row) ==
    IF row.name = NULL THEN Fails(t, "IntegrityError")
    ELSE Done([t EXCEPT !.Genre = Append(@, row)], 1)

\* SELECT film_id FROM Film WHERE film_id = ?  followed by fetchone()
SelectFilm(t, film_id) == \E i \in 1..Len(t.Film) : t.Film[i].film_id = film_id

\* Variant of DeleteFrom: the WHERE clause is missing
DeleteFromNoWhere(t, table, film_id) ==
    Done([t EXCEPT ![table] = <<>>], Len(t[table]))

\* DELETE FROM <table> WHERE film_id = ?
DeleteFrom(t, table, film_id) ==
    LET Miss(r) == r.film_id # film_id
        kept == SelectSeq(t[table], Miss)
    IN  Done([t EXCEPT ![table] = kept], Len(t[table]) - Len(kept))

\* UPDATE Film SET <key = ?, ...> WHERE film_id = ?
UpdateFilm(t, fields, film_id) ==
    LET Set(r) == [c \in DOMAIN r |-> IF c \in DOMAIN fields THEN fields[c] ELSE r[c]]
        hits == {i \in 1..Len(t.Film) : t.Film[i].film_id = film_id}
        rows == [i \in 1..Len(t.Film) |-> IF i \in hits THEN Set(t.Film[i]) ELSE t.Film[i]]
    IN  IF \E i \in hits : ~CheckIn(rows[i].status, Statuses)
        THEN Fails(t, "IntegrityError")
        ELSE Done([t EXCEPT !.Film = rows], Cardinality(hits))

----------------------------------------------------------------------------
(* One request: the connection of get_db and the statements of the handler. *)
(* `fault` numbers the write statement (or commit) at which the storage     *)
(* engine raises sqlite3.OperationalError; 0 means no storage fault.        *)

Begin(committed, fault) ==
    [db |-> committed, tx |-> committed, err |-> NULL, resp |-> 0,
     log |-> <<>>, step |-> 0, fault |-> fault, rowcount |-> -1, val |-> NULL]

\* the log of the request: each statement issued, the exception it raised
\* (NULL when none) and its rowcount
Logged(st, stmt, err, rowcount) ==
    Append(st.log, [stmt |-> stmt, err |-> err, rowcount |-> rowcount])

\* cursor.execute of a write statement whose effect is res
Execute(st, stmt, res) ==
    IF st.err # NULL THEN st
    ELSE IF st.step + 1 = st.fault
         THEN [st EXCEPT !.step = @ + 1, !.err = "OperationalError",
                         !.log = Logged(st, stmt, "OperationalError", -1)]
    ELSE IF res.err # NULL
         THEN [st EXCEPT !.step = @ + 1, !.err = res.err,
                         !.log = Logged(st, stmt, res.err, -1)]
    ELSE [st EXCEPT !.step = @ + 1, !.tx = res.tables, !.rowcount = res.rowcount,
                    !.log = Logged(st, stmt, NULL, res.rowcount)]

\* db.commit()
Commit(st) ==
    IF st.err # NULL THEN st
    ELSE IF st.step + 1 = st.fault
         THEN [st EXCEPT !.step = @ + 1, !.err = "OperationalError",
                         !.log = Logged(st, "COMMIT", "OperationalError", -1)]
    ELSE [st EXCEPT !.step = @ + 1, !.db = st.tx,
                    !.log = Logged(st, "COMMIT", NULL, -1)]

\* db.rollback()
Rollback(st) == [st EXCEPT !.tx = st.db, !.log = Logged(st, "ROLLBACK", NULL, -1)]

\* raise HTTPException(status_code=code)
HTTPException(st, code) == [st EXCEPT !.err = "HTTPException", !.resp = code]

\* get_db after the handler: commit on return, rollback when it raised;
\* an exception that is no HTTPException is answered 500 by the framework
get_db(st) ==
    IF st.err = NULL THEN [st EXCEPT !.db = st.tx]
    ELSE [st EXCEPT !.tx = st.db,
                    !.resp = IF st.err = "HTTPException" THEN st.resp ELSE 500]

----------------------------------------------------------------------------
(* routes.py: POST /watchlist *)

\* for genre in genres_list: cursor.execute("INSERT INTO Genre ...")
RECURSIVE InsertGenres(_, _, _)
InsertGenres(st, film_id, genres_list) ==
    IF genres_list = <<>> THEN st
    ELSE InsertGenres(
             Execute(st, "INSERT Genre",
                     InsertGenre(st.tx, [film_id |-> film_id, name |-> Head(genres_list)])),
             film_id, Tail(genres_list))

\* Variant of AddExcept: the except clauses commit instead of rolling back
AddExceptCommits(st) ==
    IF st.err = "IntegrityError"
    THEN HTTPException([st EXCEPT !.db = st.tx, !.log = Logged(st, "COMMIT", NULL, -1)], 409)
    ELSE IF st.err # NULL
    THEN HTTPException([st EXCEPT !.db = st.tx, !.log = Logged(st, "COMMIT", NULL, -1)], 500)
    ELSE [st EXCEPT !.resp = 201]

\* the except clauses of add_to_watchlist
AddExcept(st) ==
    IF st.err = "IntegrityError" THEN HTTPException(Rollback(st), 409)
    ELSE IF st.err # NULL THEN HTTPException(Rollback(st), 500)
    ELSE [st EXCEPT !.resp = 201]

\* Variant of AwaitDetails: a failed fetch is swallowed and the film is
\* stored from a stub body that holds the id alone
AwaitDetailsFallback(st, type, film_id, answer) ==
    IF answer.outcome # "ok"
    THEN [st EXCEPT !.val = get_details(type, [id |-> film_id]),
                    !.log = Logged(st, "get_details", answer.outcome, -1)]
    ELSE [st EXCEPT !.val = get_details(type, answer.body),
                    !.log = Logged(st, "get_details", NULL, -1)]

\* await tmdb_client.get_details(media_type=type, tmdb_id=film_id):
\* answer is what the request ended in; val is the returned triple
AwaitDetails(st, type, film_id, answer) ==
    IF answer.outcome # "ok"
    THEN [st EXCEPT !.err = answer.outcome,
                    !.log = Logged(st, "get_details", answer.outcome, -1)]
    ELSE IF get_details_raises(type, answer.body) # NULL
         THEN [st EXCEPT !.err = get_details_raises(type, answer.body),
                         !.log = Logged(st, "get_details",
                                        get_details_raises(type, answer.body), -1)]
    ELSE [st EXCEPT !.val = get_details(type, answer.body),
                    !.log = Logged(st, "get_details", NULL, -1)]

\* Variant of FilmValues: the release date is bound to watched_date
FilmValuesShifted(film_base) ==
    [film_base EXCEPT !.status = "PlanToWatch", !.watched_date = film_base.release_date]

\* the values bound to INSERT INTO Film: the fields of film_base, the
\* default status and the default watched_date
FilmValues(film_base) ==
    [film_base EXCEPT !.status = "PlanToWatch", !.watched_date = NULL]

add_to_watchlist(committed, film_id, type, answer, fault) ==
    LET s0 == Begin(committed, fault)
        s1 == AwaitDetails(s0, type, film_id, answer)
        d  == s1.val
        s2 == IF s1.err # NULL THEN s1
              ELSE Execute(s1, "INSERT Film",
                           InsertFilm(s1.tx, FilmValues(d.film_base)))
        s3 == IF s2.err # NULL THEN s2
              ELSE Execute(s2, "INSERT Meta",
                           InsertMeta(s2.tx, [film_id    |-> d.film_base.film_id,
                                              imdb_id    |-> d.meta_data.imdb_id,
                                              runtime    |-> d.meta_data.runtime,
                                              plot       |-> d.meta_data.plot,
                                              rating     |-> d.meta_data.rating,
                                              poster_url |-> d.meta_data.poster_url]))
        s4 == IF s3.err # NULL THEN s3
              ELSE InsertGenres(s3, d.film_base.film_id, d.genres)
        s5 == Commit(s4)
    IN  get_db(AddExcept(s5))

----------------------------------------------------------------------------
(* routes.py: PATCH /watchlist/{film_id} *)

PatchFields == {"status", "watched_date"}

\* the status values the PATCH bodies of the model carry (the five values
\* are treated alike by the handler)
PatchStatuses == {"Watching", "Watched"}

\* the bodies WatchlistUpdate accepts: each field unset, null or a value;
\* fields_set is pydantic's model_fields_set, unset fields hold the default None
WatchlistUpdate ==
    {[status |-> s, watched_date |-> w, fields_set |-> F] :
        s \in PatchStatuses \cup {NULL}, w \in Dates \cup {NULL}, F \in SUBSET PatchFields}
    \ {u \in [status : PatchStatuses \cup {NULL}, watched_date : Dates \cup {NULL},
              fields_set : SUBSET PatchFields] :
          \/ "status" \notin u.fields_set /\ u.status # NULL
          \/ "watched_date" \notin u.fields_set /\ u.watched_date # NULL}

\* WatchlistUpdate(): no field set
NoUpdate == [status |-> NULL, watched_date |-> NULL, fields_set |-> {}]

\* Variant of model_dump_exclude_unset: model_dump() with the unset fields
model_dump_all(update_data) ==
    [k \in PatchFields |-> update_data[k]]

\* update_data.model_dump(exclude_unset=True)
model_dump_exclude_unset(update_data) ==
    [k \in update_data.fields_set |-> update_data[k]]

\* Python str.join on the characters of the parts
RECURSIVE Join(_, _)
Join(parts, sep) ==
    IF parts = <<>> THEN <<>>
    ELSE IF Len(parts) = 1 THEN parts[1]
    ELSE parts[1] \o <<sep>> \o Join(Tail(parts), sep)

\* Python str.split(sep) on the characters of a string
RECURSIVE Split(_, _)
Split(chars, sep) ==
    IF \A i \in 1..Len(chars) : chars[i] # sep THEN <<chars>>
    ELSE LET i == CHOOSE j \in 1..Len(chars) :
                      chars[j] = sep /\ \A k \in 1..(j - 1) : chars[k] # sep
         IN  <<SubSeq(chars, 1, i - 1)>> \o Split(SubSeq(chars, i + 1, Len(chars)), sep)

\* (SELECT GROUP_CONCAT(g.name) FROM Genre g WHERE g.film_id = f.film_id):
\* <<>> for NULL (no row), else <<the names joined by ",">>
GroupConcat(t, film_id) ==
    LET Mine(g) == g.film_id = film_id
        mine == SelectSeq(t.Genre, Mine)
    IN  IF mine = <<>> THEN <<>>
        ELSE <<Join([i \in 1..Len(mine) |-> Chars[mine[i].name]], ",")>>

\* SELECT f.*, m.*, genre_names FROM Film f LEFT JOIN Meta m ON ... :
\* one row per (Film row, matching Meta row), the Meta columns NULL when
\* no Meta row matches
NoMeta ==
    [imdb_id |-> NULL, runtime |-> NULL, plot |-> NULL, rating |-> NULL,
     poster_url |-> NULL]

JoinedRows(t, f) ==
    LET Mine(m) == m.film_id = f.film_id
        metas == SelectSeq(t.Meta, Mine)
        Row(m) == [film_id |-> f.film_id, title |-> f.title,
                   release_date |-> f.release_date, type |-> f.type,
                   status |-> f.status, watched_date |-> f.watched_date,
                   imdb_id |-> m.imdb_id, runtime |-> m.runtime, plot |-> m.plot,
                   rating |-> m.rating, poster_url |-> m.poster_url,
                   genre_names |-> GroupConcat(t, f.film_id)]
    IN  IF metas = <<>> THEN <<Row(NoMeta)>>
        ELSE [i \in 1..Len(metas) |-> Row(metas[i])]

RECURSIVE SelectJoined(_, _)
SelectJoined(t, films) ==
    IF films = <<>> THEN <<>>
    ELSE JoinedRows(t, Head(films)) \o SelectJoined(t, Tail(films))

\* ... WHERE f.film_id = ?
SelectJoinedWhere(t, film_id) ==
    LET Hit(f) == f.film_id = film_id
    IN  SelectJoined(t, SelectSeq(t.Film, Hit))

\* the ISO texts date.fromisoformat accepts among the stored ones
IsoDates == {StrptimeTable[x] : x \in DOMAIN StrptimeTable} \cup Dates

\* genre_names_str.split(",") if genre_names_str else None: <<>> for None
GenresList(genre_names) ==
    IF genre_names # <<>> /\ genre_names[1] # <<>>
    THEN <<Split(genre_names[1], ",")>>
    ELSE <<>>

\* the exception the conversion of a joined row to a WatchlistItem raises, or NULL
WatchlistItemRaises(row) ==
    IF row.release_date # NULL /\ row.release_date \notin IsoDates THEN "ValueError"
    ELSE IF row.watched_date # NULL /\ row.watched_date \notin IsoDates THEN "ValueError"
    ELSE IF ~FilmBaseValid(row) THEN "ValidationError"
    ELSE NULL

\* the joined entry after the conversion
WatchlistItem(row) ==
    [c \in (DOMAIN row \ {"genre_names"}) \cup {"genres"} |->
        IF c = "genres" THEN GenresList(row.genre_names) ELSE row[c]]

\* Variant of UpdateChecks: the empty patch is checked first
UpdateChecksSwapped(t, film_id, update_data) ==
    IF DOMAIN model_dump_exclude_unset(update_data) = {} THEN 400
    ELSE IF ~SelectFilm(t, film_id) THEN 404
    ELSE 0

\* the two checks before the UPDATE: the status to raise, or 0
UpdateChecks(t, film_id, update_data) ==
    IF ~SelectFilm(t, film_id) THEN 404
    ELSE IF DOMAIN model_dump_exclude_unset(update_data) = {} THEN 400
    ELSE 0

\* the re-read of the entry after the commit
UpdateReread(st, film_id) ==
    LET rows == SelectJoinedWhere(st.tx, film_id)
    IN  IF rows = <<>> THEN HTTPException(st, 404)
        ELSE IF WatchlistItemRaises(rows[1]) # NULL
             THEN [st EXCEPT !.err = WatchlistItemRaises(rows[1])]
        ELSE [st EXCEPT !.resp = 200]

update_watchlist_item(committed, film_id, update_data, fault) ==
    LET s0 == Begin(committed, fault)
        code == UpdateChecks(s0.tx, film_id, update_data)
        s1 == Execute(s0, "UPDATE Film",
                      UpdateFilm(s0.tx, model_dump_exclude_unset(update_data), film_id))
        s2 == Commit(s1)
    IN  IF code # 0 THEN get_db(HTTPException(s0, code))
        ELSE IF s2.err # NULL THEN get_db(HTTPException(Rollback(s2), 500))
        ELSE get_db(UpdateReread(s2, film_id))

----------------------------------------------------------------------------
(* routes.py: GET /watchlist *)

\* the SELECT over Film LEFT JOIN Meta, then the conversion of each row in
\* turn; the first row that fails the conversion raises
get_watchlist(committed) ==
    LET s0 == Begin(committed, 0)
        rows == SelectJoined(s0.tx, s0.tx.Film)
        bad == {i \in 1..Len(rows) : WatchlistItemRaises(rows[i]) # NULL}
    IN  IF bad # {}
        THEN LET i == CHOOSE j \in bad : \A k \in bad : j <= k
             IN  get_db([s0 EXCEPT !.err = WatchlistItemRaises(rows[i])])
        ELSE get_db([s0 EXCEPT !.resp = 200,
                               !.val = [i \in 1..Len(rows) |-> WatchlistItem(rows[i])]])

----------------------------------------------------------------------------
(* routes.py: DELETE /watchlist/{film_id} *)

\* Variant of DeleteRows: the Genre rows are not deleted
DeleteRowsKeepGenre(st, film_id) ==
    LET s2 == Execute(st, "DELETE Meta", DeleteFrom(st.tx, "Meta", film_id))
    IN  IF s2.err # NULL THEN s2
        ELSE Execute(s2, "DELETE Film", DeleteFrom(s2.tx, "Film", film_id))

\* Variant of DeleteRows: the Meta row is not deleted
DeleteRowsKeepMeta(st, film_id) ==
    LET s1 == Execute(st, "DELETE Genre", DeleteFrom(st.tx, "Genre", film_id))
    IN  IF s1.err # NULL THEN s1
        ELSE Execute(s1, "DELETE Film", DeleteFrom(s1.tx, "Film", film_id))

\* the three DELETE statements of the try block
DeleteRows(st, film_id) ==
    LET s1 == Execute(st, "DELETE Genre", DeleteFrom(st.tx, "Genre", film_id))
        s2 == IF s1.err # NULL THEN s1
              ELSE Execute(s1, "DELETE Meta", DeleteFrom(s1.tx, "Meta", film_id))
    IN  IF s2.err # NULL THEN s2
        ELSE Execute(s2, "DELETE Film", DeleteFrom(s2.tx, "Film", film_id))

\* Variant of DeleteCheck: no existence check before the try block
DeleteCheckNone(t, film_id) == 0

\* the check before the try block: the status to raise, or 0
DeleteCheck(t, film_id) == IF ~SelectFilm(t, film_id) THEN 404 ELSE 0

delete_watchlist_item(committed, film_id, fault) ==
    LET s0 == Begin(committed, fault)
        s3 == DeleteRows(s0, film_id)
        \* if cursor.rowcount == 0: rollback and raise 404 inside the try
        s4 == IF s3.err = NULL /\ s3.rowcount = 0
              THEN HTTPException(Rollback(s3), 404)
              ELSE Commit(s3)
        \* except Exception (HTTPException is one): rollback and raise 500
        s5 == IF s4.err # NULL THEN HTTPException(Rollback(s4), 500)
              ELSE [s4 EXCEPT !.resp = 204]
    IN  IF DeleteCheck(s0.tx, film_id) # 0
        THEN get_db(HTTPException(s0, DeleteCheck(s0.tx, film_id)))
        ELSE get_db(s5)

----------------------------------------------------------------------------
(* tmdb_client.py and the proxy routes of routes.py.  The routes are async: *)
(* a call is a task of the event loop and runs until its next await (the    *)
(* sleep of _handle_rate_limit, the exchange with the remote service), so   *)
(* a call can start while another one sleeps or awaits its response.        *)
(* `now` is time.time() in whole seconds.                                   *)

\* the calls of a run: a call, and one that starts after it and can overlap it
Calls == {1, 2}

Routes == {"search", "details", "trending", "discover", "genres"}

\* the media type the requests of the model name for each route
RouteType ==
    [r \in Routes |-> IF r \in {"search", "discover"} THEN "movie" ELSE "tv"]

\* a header that the response does not carry
NoHeader == -1

\* x-ratelimit-remaining and x-ratelimit-reset of a response
RemainingHeaders == {NoHeader, 1, 2}

ResetHeaders == {NoHeader} \cup 1..MaxTime

\* status codes of the remote service other than 200
ErrorStatuses == {404}

\* what client.request ends in: a response with its status and headers, or
\* a transport error of httpx
Responses ==
    {[outcome |-> "response", status |-> c, remaining |-> r, reset |-> t] :
        c \in {200} \cup ErrorStatuses, r \in RemainingHeaders, t \in ResetHeaders}
    \cup {[outcome |-> "ConnectError", status |-> 0,
            remaining |-> NoHeader, reset |-> NoHeader]}

\* httpx.Response(200): no header
EmptyResponse ==
    [outcome |-> "response", status |-> 200, remaining |-> NoHeader, reset |-> NoHeader]

\* Variant of _handle_rate_limit: the buffer of one request is not kept
_handle_rate_limit_no_buffer(remaining, reset_time, response, t) ==
    LET r == IF response.remaining # NoHeader THEN response.remaining ELSE remaining
        z == IF response.reset # NoHeader THEN response.reset ELSE reset_time
        wait_time == IF z - t > 0 THEN z - t ELSE 0
    IN  [remaining |-> r, reset_time |-> z,
         sleep |-> IF r < 1 /\ wait_time > 0 THEN wait_time ELSE 0]

\* _handle_rate_limit at time t: the two globals after it and the time it
\* sleeps (0 when it does not sleep)
_handle_rate_limit(remaining, reset_time, response, t) ==
    LET r == IF response.remaining # NoHeader THEN response.remaining ELSE remaining
        z == IF response.reset # NoHeader THEN response.reset ELSE reset_time
        wait_time == IF z - t > 0 THEN z - t ELSE 0
    IN  [remaining |-> r, reset_time |-> z,
         sleep |-> IF r <= 1 /\ wait_time > 0 THEN wait_time ELSE 0]

\* response.json() of the list endpoints (search, trending, discover)
ResultsBody(media_type) ==
    [results |-> <<IF media_type = "movie"
                   THEN [id |-> 1, title |-> "Dune", release_date |-> "2021-1-5"]
                   ELSE [id |-> 2, name |-> "The Wire", first_air_date |-> ""]>>]

\* what search, get_trending and discover return for the body data
MapResults(data, media_type) ==
    LET results == Get(data, "results", <<>>)
    IN  [i \in 1..Len(results) |-> _map_tmdb_to_filmbase(results[i], media_type)]

\* FilmDetailsResponse(**film_base.model_dump(), meta_data=..., genres=...)
FilmDetailsResponse(d) ==
    [film_id |-> d.film_base.film_id, title |-> d.film_base.title,
     release_date |-> d.film_base.release_date, type |-> d.film_base.type,
     status |-> d.film_base.status, watched_date |-> d.film_base.watched_date,
     meta_data |-> d.meta_data, genres |-> d.genres]

\* the answer of a proxy route whose request ended in `response`: an
\* HTTPStatusError is answered with the status of the remote response, any
\* other exception is answered 500 by the framework
RouteAnswer(route, media_type, response) ==
    IF response.outcome # "response" THEN [resp |-> 500, items |-> <<>>]
    ELSE IF response.status # 200 THEN [resp |-> response.status, items |-> <<>>]
    ELSE IF route = "details"
         THEN [resp |-> 200,
               items |-> <<FilmDetailsResponse(
                              get_details(media_type, DetailsBody(media_type, 1, <<"D">>)))>>]
    ELSE [resp |-> 200, items |-> MapResults(ResultsBody(media_type), media_type)]

\* the response without its rate-limit headers
Bare(response) == [response EXCEPT !.remaining = NoHeader, !.reset = NoHeader]

\* what the remote service can answer when the rate limit is left aside
BareResponses == {Bare(r) : r \in Responses}

\* a call that has not started
NoStart == [remaining |-> 0, reset_time |-> 0, now |-> 0]

\* sent counts the requests the call has sent to the remote service
NoCall ==
    [pc |-> "idle", route |-> NULL, type |-> NULL, start |-> NoStart,
     wake |-> 0, sentAt |-> -1, sent |-> 0, response |-> EmptyResponse,
     resp |-> 0, items |-> <<>>]

\* the globals set at import, the clock and the calls at the start
ClientInit ==
    /\ RATE_LIMIT_REMAINING = 30
    /\ RATE_LIMIT_RESET_TIME = 0
    /\ now = 0
    /\ calls = [c \in Calls |-> NoCall]

\* time.time() advances
Tick ==
    /\ now < MaxTime
    /\ now' = now + 1
    /\ UNCHANGED <<RATE_LIMIT_REMAINING, RATE_LIMIT_RESET_TIME, calls>>

\* a request for search, details, trending or discover starts: the route
\* calls the client, _make_request runs _handle_rate_limit(httpx.Response(200))
StartCall(c) ==
    /\ calls[c].pc = "idle"
    /\ \A b \in Calls : b < c => calls[b].pc # "idle"
    /\ \E route \in Routes \ {"genres"} :
         LET type == RouteType[route]
             h == _handle_rate_limit(RATE_LIMIT_REMAINING, RATE_LIMIT_RESET_TIME,
                                     EmptyResponse, now)
         IN  calls' = [calls EXCEPT ![c] =
                 [@ EXCEPT !.pc = IF h.sleep > 0 THEN "sleep_before" ELSE "request",
                           !.route = route, !.type = type,
                           !.start = [remaining |-> RATE_LIMIT_REMAINING,
                                      reset_time |-> RATE_LIMIT_RESET_TIME,
                                      now |-> now],
                           !.wake = now + h.sleep]]
    /\ UNCHANGED <<RATE_LIMIT_REMAINING, RATE_LIMIT_RESET_TIME, now>>

\* Variant of WakeBefore: the check is repeated until the remaining count
\* is above 1 (while RATE_LIMIT_REMAINING <= 1: sleep)
WakeBeforeWhenRefilled(c) ==
    /\ calls[c].pc = "sleep_before"
    /\ now >= calls[c].wake
    /\ RATE_LIMIT_REMAINING > 1
    /\ calls' = [calls EXCEPT ![c].pc = "request"]
    /\ UNCHANGED <<RATE_LIMIT_REMAINING, RATE_LIMIT_RESET_TIME, now>>

\* asyncio.sleep(wait_time) of the check before the request returns
WakeBefore(c) ==
    /\ calls[c].pc = "sleep_before"
    /\ now >= calls[c].wake
    /\ calls' = [calls EXCEPT ![c].pc = "request"]
    /\ UNCHANGED <<RATE_LIMIT_REMAINING, RATE_LIMIT_RESET_TIME, now>>

\* client.request(method, url, params=params): the request is sent
SendRequest(c) ==
    /\ calls[c].pc = "request"
    /\ calls' = [calls EXCEPT ![c].pc = "await", ![c].sentAt = now,
                              ![c].sent = @ + 1]
    /\ UNCHANGED <<RATE_LIMIT_REMAINING, RATE_LIMIT_RESET_TIME, now>>

\* Variant of Answered: a request that failed is sent again
AnsweredRetries(call, response) ==
    LET a == RouteAnswer(call.route, call.type, response)
    IN  IF response.outcome # "response" \/ response.status # 200
        THEN [call EXCEPT !.pc = "request", !.response = Bare(response)]
        ELSE [call EXCEPT !.pc = "done", !.response = Bare(response),
                          !.start = NoStart, !.wake = 0, !.sentAt = -1,
                          !.resp = a.resp, !.items = a.items]

\* the route's answer is returned; the record of a finished call keeps its
\* route, the response of the remote service and the answer
Answered(call, response) ==
    LET a == RouteAnswer(call.route, call.type, response)
    IN  [call EXCEPT !.pc = "done", !.response = Bare(response),
                     !.start = NoStart, !.wake = 0, !.sentAt = -1,
                     !.resp = a.resp, !.items = a.items]

\* client.request returns or raises; on a response _make_request runs
\* _handle_rate_limit(response), then raise_for_status / response.json()
Receive(c) ==
    /\ calls[c].pc = "await"
    /\ \E response \in Responses :
         IF response.outcome # "response"
         THEN /\ calls' = [calls EXCEPT ![c] = Answered(@, response)]
              /\ UNCHANGED <<RATE_LIMIT_REMAINING, RATE_LIMIT_RESET_TIME>>
         ELSE LET h == _handle_rate_limit(RATE_LIMIT_REMAINING, RATE_LIMIT_RESET_TIME,
                                          response, now)
              IN  /\ RATE_LIMIT_REMAINING' = h.remaining
                  /\ RATE_LIMIT_RESET_TIME' = h.reset_time
                  /\ calls' = [calls EXCEPT ![c] =
                        IF h.sleep > 0
                        THEN [@ EXCEPT !.pc = "sleep_after", !.response = Bare(response),
                                       !.wake = now + h.sleep]
                        ELSE Answered(@, response)]
    /\ UNCHANGED now

\* asyncio.sleep(wait_time) of the check after the response returns
WakeAfter(c) ==
    /\ calls[c].pc = "sleep_after"
    /\ now >= calls[c].wake
    /\ calls' = [calls EXCEPT ![c] = Answered(@, @.response)]
    /\ UNCHANGED <<RATE_LIMIT_REMAINING, RATE_LIMIT_RESET_TIME, now>>

\* GET /genres/{type}: tmdb_client has no attribute get_genres, the
\* AttributeError is caught by `except Exception` and answered 500; no
\* request is sent.  `response` is what the remote service would answer.
GetGenres(c) ==
    /\ calls[c].pc = "idle"
    /\ \A b \in Calls : b < c => calls[b].pc # "idle"
    /\ \E response \in BareResponses :
         calls' = [calls EXCEPT ![c] =
                     [@ EXCEPT !.pc = "done", !.route = "genres",
                               !.type = RouteType["genres"],
                               !.response = response, !.resp = 500]]
    /\ UNCHANGED <<RATE_LIMIT_REMAINING, RATE_LIMIT_RESET_TIME, now>>

----------------------------------------------------------------------------
(* mcp_server.py: the tools of the agent, which call the routes over HTTP *)

\* the values of watched_date_str: None, the empty string, a date text
ToolDateStrings == {NULL, ""} \cup Dates

\* the JSON body update_my_watchlist_item_tool builds: status when it is
\* truthy, watched_date when watched_date_str is not None
ToolJson(status, watched_date_str) ==
    LET keys == (IF Truthy(status) THEN {"status"} ELSE {})
                \cup (IF watched_date_str # NULL THEN {"watched_date"} ELSE {})
    IN  [k \in keys |-> IF k = "status" THEN status ELSE watched_date_str]

\* the validation of the body of PATCH against WatchlistUpdate fails:
\* status is no null and none of the Literal values, or watched_date is no
\* null and no ISO date text
BodyInvalid(json) ==
    \/ "status" \in DOMAIN json /\ json.status \notin Statuses \cup {NULL}
    \/ "watched_date" \in DOMAIN json /\ json.watched_date \notin IsoDates \cup {NULL}

\* the WatchlistUpdate of a valid body
ParseWatchlistUpdate(json) ==
    [status |-> Get(json, "status", NULL),
     watched_date |-> Get(json, "watched_date", NULL),
     fields_set |-> DOMAIN json]

\* _call_api: the dictionary returned for the answer of the route
CallApiResult(resp) ==
    [error |-> resp >= 400, status_code |-> resp]

\* update_my_watchlist_item_tool: sent tells whether the PATCH was sent, r
\* is the request as served
update_my_watchlist_item_tool(committed, film_id, status, watched_date_str, fault) ==
    LET json == ToolJson(status, watched_date_str)
        unserved == Begin(committed, 0)
    IN  IF DOMAIN json = {}
        THEN [sent |-> FALSE, update_data |-> NoUpdate, r |-> unserved,
              result |-> [error |-> TRUE, status_code |-> 400]]
        ELSE IF BodyInvalid(json)
        THEN [sent |-> TRUE,
              update_data |-> [NoUpdate EXCEPT !.fields_set = DOMAIN json],
              r |-> [unserved EXCEPT !.resp = 422],
              result |-> CallApiResult(422)]
        ELSE LET r == update_watchlist_item(committed, film_id,
                                            ParseWatchlistUpdate(json), fault)
             IN  [sent |-> TRUE, update_data |-> ParseWatchlistUpdate(json),
                  r |-> r, result |-> CallApiResult(r.resp)]

\* what a tool returns for a request _call_api sent and the route served as r
Sent(r) == [sent |-> TRUE, r |-> r, result |-> CallApiResult(r.resp)]

\* add_to_my_watchlist_tool
add_to_my_watchlist_tool(committed, film_id, type, answer, fault) ==
    Sent(add_to_watchlist(committed, film_id, type, answer, fault))

\* the statements at which a storage fault can strike a request the tool
\* sends, 0 for none: INSERT Film, INSERT Meta, one INSERT Genre per name
\* and COMMIT of an add; UPDATE and COMMIT of an update.  A number past the
\* last statement the request issues strikes nothing (fault <= r.step)
AddStatements == 0..(MaxGenres + 3)

UpdateStatements == 0..2

\* no tool was called yet
NoTool ==
    [name |-> "none", film_id |-> 0, status |-> NULL, watched_date_str |-> NULL,
     fault |-> 0, sent |-> FALSE, result |-> [error |-> FALSE, status_code |-> 0]]

----------------------------------------------------------------------------
(* tmdb_client.py on arbitrary payloads and caller parameters.  `applied`   *)
(* is the function of the client that was applied, with its arguments, the  *)
(* exception it raised (NULL when none) and what it returned.               *)

\* a key the item does not carry
ABSENT == "ABSENT"

\* the date texts of the raw items: null, empty, two that strptime accepts
\* with "%Y-%m-%d", and three that it rejects
RawDates == {NULL, "", "2021-10-22", "2021-1-5", "22/10/2021", "2021-13-45", "soon"}

\* the raw item with the given id and the optional keys that are not ABSENT
ItemOf(id, title, name, release_date, first_air_date) ==
    LET opt == [title |-> title, name |-> name, release_date |-> release_date,
                first_air_date |-> first_air_date]
        keys == {k \in DOMAIN opt : opt[k] # ABSENT}
    IN  [k \in {"id"} \cup keys |-> IF k = "id" THEN id ELSE opt[k]]

\* the items of the results of the remote service
RawItems ==
    {ItemOf(id, t, n, rd, fad) :
        id \in FilmIds, t \in {ABSENT, NULL, "Dune"}, n \in {ABSENT, NULL, "The Wire"},
        rd \in {ABSENT} \cup RawDates, fad \in {ABSENT, "", "2002-06-09", "soon"}}

\* the exception _map_tmdb_to_filmbase raises on an item, or NULL
MapRaises(item, media_type) ==
    IF "id" \notin DOMAIN item THEN "KeyError"
    ELSE IF ~FilmBaseValid(_map_tmdb_to_filmbase(item, media_type))
         THEN "ValidationError"
    ELSE NULL

\* the exception the list comprehension of search, get_trending and
\* discover raises on the body data, or NULL
MapResultsRaises(data, media_type) ==
    LET results == Get(data, "results", <<>>)
        bad == {i \in 1..Len(results) : MapRaises(results[i], media_type) # NULL}
    IN  IF bad = {} THEN NULL
        ELSE MapRaises(results[CHOOSE i \in bad : \A j \in bad : i <= j], media_type)

\* an item of the results that normalises whatever the media type
GoodItem ==
    [id |-> 7, title |-> "Heat", name |-> "Heat", release_date |-> "2021-10-22",
     first_air_date |-> "2021-10-22"]

\* the details body that carries the keys of the item
DetailsOfItem(item) ==
    item @@ [overview |-> "plot", vote_average |-> "8.0",
             external_ids |-> [imdb_id |-> "tt1"],
             genres |-> <<[id |-> 1, name |-> "D"]>>]

\* settings.tmdb_api_key
TMDB_API_KEY == "configured-key"

\* the operations of the client
ClientOps == {"search", "get_details", "get_trending", "discover"}

\* ",".join(map(str, value)) of the list values of the filters
JoinTable ==
    [v \in {<<"28", "12">>, <<"caller-key">>} |->
        IF v = <<"28", "12">> THEN "28,12" ELSE "caller-key"]

\* the values a caller gives a filter: a string (v holds it alone) or a
\* list of strings
FilterValues ==
    [with_genres |-> {[kind |-> "str", v |-> <<"28">>],
                      [kind |-> "list", v |-> <<"28", "12">>]},
     sort_by |-> {[kind |-> "str", v |-> <<"popularity.desc">>]},
     api_key |-> {[kind |-> "str", v |-> <<"caller-key">>],
                  [kind |-> "list", v |-> <<"caller-key">>]}]

\* the filter maps of the callers of discover (the query parameters of
\* GET /discover/{type} are such a map, with string values)
FilterMaps ==
    UNION {{f \in [K -> UNION {FilterValues[k] : k \in K}] :
                \A k \in K : f[k] \in FilterValues[k]} :
           K \in SUBSET DOMAIN FilterValues}

\* processed_filters of discover
ProcessedFilters(filters) ==
    [k \in DOMAIN filters |->
        IF filters[k].kind = "list" THEN JoinTable[filters[k].v] ELSE filters[k].v[1]]

\* the params each operation hands to _make_request
OpParams(op, filters) ==
    IF op = "search" THEN [query |-> "dune"]
    ELSE IF op = "get_details" THEN [append_to_response |-> "credits,external_ids"]
    ELSE IF op = "discover" THEN ProcessedFilters(filters)
    ELSE <<>>

\* Variant of RequestParams: the credential is set only when the caller
\* gave none (params.setdefault)
RequestParamsCallerFirst(params) ==
    [k \in DOMAIN params \cup {"api_key"} |->
        IF k \in DOMAIN params THEN params[k] ELSE TMDB_API_KEY]

\* _make_request: params = params or {}; params["api_key"] = the credential
RequestParams(params) ==
    [k \in DOMAIN params \cup {"api_key"} |->
        IF k = "api_key" THEN TMDB_API_KEY ELSE params[k]]

\* nothing was applied yet
NoApplied == [fn |-> "none"]

----------------------------------------------------------------------------
(* A write request in flight.  add_to_watchlist runs on the event loop and  *)
(* get_watchlist in a worker thread, each on the connection get_db opened   *)
(* for it, so a GET /watchlist can run between two statements of an add or  *)
(* a delete.  `conn` is the connection of the write request in flight: its  *)
(* context st (tx holds its uncommitted writes) and pc, the number of the   *)
(* statement it runs next; readAt is the pc at which a GET /watchlist ran.  *)

NoConn ==
    [op |-> "none", film_id |-> 0, pc |-> 0, readAt |-> 0,
     st |-> Begin(create_tables, 0)]

\* the remote answer of the adds in flight: the body with MaxGenres genres
FullGenres == [i \in 1..MaxGenres |-> NameAt(i)]

FullAnswer(media_type, tmdb_id) ==
    [outcome |-> "ok", status |-> 200,
     body |-> DetailsBody(media_type, tmdb_id, FullGenres)]

\* statement number pc of the try block of add_to_watchlist: INSERT INTO
\* Film, INSERT INTO Meta, one INSERT INTO Genre per name, db.commit()
AddStep(st, pc) ==
    LET d == st.val
    IN  IF pc = 1
        THEN Execute(st, "INSERT Film", InsertFilm(st.tx, FilmValues(d.film_base)))
        ELSE IF pc = 2
        THEN Execute(st, "INSERT Meta",
                     InsertMeta(st.tx, [film_id    |-> d.film_base.film_id,
                                        imdb_id    |-> d.meta_data.imdb_id,
                                        runtime    |-> d.meta_data.runtime,
                                        plot       |-> d.meta_data.plot,
                                        rating     |-> d.meta_data.rating,
                                        poster_url |-> d.meta_data.poster_url]))
        ELSE IF pc <= 2 + Len(d.genres)
        THEN Execute(st, "INSERT Genre",
                     InsertGenre(st.tx, [film_id |-> d.film_base.film_id,
                                         name |-> d.genres[pc - 2]]))
        ELSE Commit(st)

\* the add has run its last statement
AddDone(st, pc) == st.err # NULL \/ pc > 2 + Len(st.val.genres)

\* statement number pc of the try block of delete_watchlist_item: the three
\* DELETE statements, then the rowcount check with its rollback, or db.commit()
DeleteStep(st, film_id, pc) ==
    IF pc = 1 THEN Execute(st, "DELETE Genre", DeleteFrom(st.tx, "Genre", film_id))
    ELSE IF pc = 2 THEN Execute(st, "DELETE Meta", DeleteFrom(st.tx, "Meta", film_id))
    ELSE IF pc = 3 THEN Execute(st, "DELETE Film", DeleteFrom(st.tx, "Film", film_id))
    ELSE IF st.rowcount = 0 THEN HTTPException(Rollback(st), 404)
    ELSE Commit(st)

DeleteDone(st, pc) == st.err # NULL \/ pc > 3

\* the end of delete_watchlist_item: the except clause, or 204
DeleteExcept(st) ==
    IF st.err # NULL THEN HTTPException(Rollback(st), 500)
    ELSE [st EXCEPT !.resp = 204]

\* Variant of ReaderView: the requests share one connection
ReaderViewShared(committed, c) ==
    IF c.op = "none" THEN committed ELSE c.st.tx

\* what the connection get_db opens for a GET /watchlist reads while the
\* connection c of a write request is open: the committed content of the file
ReaderView(committed, c) == committed

----------------------------------------------------------------------------
(* The service: requests are served one after the other (single user);     *)
(* `last` is the request served last, with its answer and statement log.   *)

\* the statements at which a storage fault can strike a request: the ones
\* its fault-free run r0 issues (a later fault number never fires)
FaultPoints(r0) == 0..r0.step

\* The record of a served request.  Of a request that committed nothing
\* the record keeps the target, the remote outcome, which patch fields were
\* set, the answer and the log, and drops the values that were not stored.
Served(op, film_id, type, genres, update_data, remote, r) ==
    IF \E i \in 1..Len(r.log) : r.log[i].stmt = "COMMIT" /\ r.log[i].err = NULL
    THEN [op |-> op, film_id |-> film_id, type |-> type, genres |-> genres,
          update_data |-> update_data, remote |-> remote,
          resp |-> r.resp, log |-> r.log, items |-> <<>>]
    ELSE [op |-> op, film_id |-> film_id, type |-> NULL, genres |-> <<>>,
          update_data |-> [NoUpdate EXCEPT !.fields_set = update_data.fields_set],
          remote |-> remote, resp |-> r.resp, log |-> r.log, items |-> <<>>]

Init ==
    /\ db = create_tables
    /\ last = [op |-> "none", film_id |-> 0, type |-> NULL, genres |-> <<>>,
               update_data |-> NoUpdate, remote |-> NULL, resp |-> 0, log |-> <<>>,
               items |-> <<>>]
    /\ nOps = 0
    /\ ClientInit
    /\ conn = NoConn
    /\ tool = NoTool
    /\ applied = NoApplied

Add ==
    /\ nOps < MaxOps
    /\ \E film_id \in FilmIds, type \in MediaTypes :
         \E answer \in RemoteAnswers(type, film_id) :
         \E r0 \in {add_to_watchlist(db, film_id, type, answer, 0)} :
         \E fault \in FaultPoints(r0) :
         \E r \in {IF fault = 0 THEN r0
                  ELSE add_to_watchlist(db, film_id, type, answer, fault)} :
            LET genres == IF answer.outcome = "ok" THEN r0.val.genres ELSE <<>>
            IN  /\ db' = r.db
                /\ last' = Served("add", film_id, type, genres, NoUpdate,
                                  answer.outcome, r)
    /\ nOps' = nOps + 1
    /\ UNCHANGED <<clientVars, conn, tool, applied>>

Update ==
    /\ nOps < MaxOps
    /\ \E film_id \in FilmIds, update_data \in WatchlistUpdate :
       \E r0 \in {update_watchlist_item(db, film_id, update_data, 0)} :
       \E fault \in FaultPoints(r0) :
       \E r \in {IF fault = 0 THEN r0
                ELSE update_watchlist_item(db, film_id, update_data, fault)} :
            /\ db' = r.db
            /\ last' = Served("update", film_id, NULL, <<>>, update_data, NULL, r)
    /\ nOps' = nOps + 1
    /\ UNCHANGED <<clientVars, conn, tool, applied>>

Delete ==
    /\ nOps < MaxOps
    /\ \E film_id \in FilmIds :
       \E r0 \in {delete_watchlist_item(db, film_id, 0)} :
       \E fault \in FaultPoints(r0) :
       \E r \in {IF fault = 0 THEN r0
                ELSE delete_watchlist_item(db, film_id, fault)} :
            /\ db' = r.db
            /\ last' = Served("delete", film_id, NULL, <<>>, NoUpdate, NULL, r)
    /\ nOps' = nOps + 1
    /\ UNCHANGED <<clientVars, conn, tool, applied>>

\* GET /watchlist: items is the list the response carries
List ==
    /\ nOps < MaxOps
    /\ \E r \in {get_watchlist(db)} :
           /\ db' = r.db
           /\ last' = [op |-> "list", film_id |-> 0, type |-> NULL, genres |-> <<>>,
                       update_data |-> NoUpdate, remote |-> NULL, resp |-> r.resp,
                       log |-> r.log,
                       items |-> IF r.resp = 200 THEN r.val ELSE <<>>]
    /\ nOps' = nOps + 1
    /\ UNCHANGED <<clientVars, conn, tool, applied>>

Next == Add \/ Update \/ Delete \/ List

Spec == Init /\ [][Next]_vars

\* the calls of the remote client and of the proxy routes
ClientNext ==
    \/ Tick /\ UNCHANGED <<storeVars, conn, tool, applied>>
    \/ \E c \in Calls :
          /\ \/ StartCall(c)
             \/ WakeBefore(c)
             \/ SendRequest(c)
             \/ Receive(c)
             \/ WakeAfter(c)
             \/ GetGenres(c)
          /\ UNCHANGED <<storeVars, conn, tool, applied>>

SpecClient == Init /\ [][ClientNext]_vars

\* a step of the clock, of the event loop resuming a task whose await is
\* over, or of a remote exchange ending (in a response or, at the latest on
\* httpx's timeout, in a transport error)
ClientProgress ==
    /\ \/ Tick
       \/ \E c \in Calls :
             WakeBefore(c) \/ SendRequest(c) \/ Receive(c) \/ WakeAfter(c)
    /\ UNCHANGED <<storeVars, conn, tool, applied>>

\* the clock advances and the event loop runs: while such a step is
\* possible, one is taken
ClientFairness == WF_vars(ClientProgress)

SpecClientLive == Init /\ [][ClientNext]_vars /\ ClientFairness

\* POST /watchlist arrives: the details are fetched, the inserts are to come
BeginAdd ==
    /\ conn.op = "none"
    /\ nOps < MaxOps
    /\ \E film_id \in FilmIds, type \in MediaTypes :
         LET answer == FullAnswer(type, film_id)
             r0 == add_to_watchlist(db, film_id, type, answer, 0)
         IN  \E fault \in FaultPoints(r0) :
                conn' = [op |-> "add", film_id |-> film_id, pc |-> 1, readAt |-> 0,
                         st |-> AwaitDetails(Begin(db, fault), type, film_id, answer)]
    /\ nOps' = nOps + 1
    /\ UNCHANGED <<db, last, clientVars, tool, applied>>

\* DELETE /watchlist/{film_id} of a stored film arrives; of an absent one
\* it is answered 404 at once
BeginDelete ==
    /\ conn.op = "none"
    /\ nOps < MaxOps
    /\ \E film_id \in FilmIds :
         IF DeleteCheck(db, film_id) # 0
         THEN conn' = conn
         ELSE \E fault \in FaultPoints(delete_watchlist_item(db, film_id, 0)) :
                 conn' = [op |-> "delete", film_id |-> film_id, pc |-> 1, readAt |-> 0,
                          st |-> Begin(db, fault)]
    /\ nOps' = nOps + 1
    /\ UNCHANGED <<db, last, clientVars, tool, applied>>

\* the write request in flight runs its next statement; after the last one
\* the handler and get_db end the request
WriterStep ==
    /\ conn.op # "none"
    /\ LET st == IF conn.op = "add" THEN AddStep(conn.st, conn.pc)
                 ELSE DeleteStep(conn.st, conn.film_id, conn.pc)
           done == IF conn.op = "add" THEN AddDone(st, conn.pc)
                   ELSE DeleteDone(st, conn.pc)
           end == IF conn.op = "add" THEN get_db(AddExcept(st))
                  ELSE get_db(DeleteExcept(st))
       IN  IF done
           THEN db' = end.db /\ conn' = NoConn
           ELSE db' = st.db /\ conn' = [conn EXCEPT !.st = st, !.pc = @ + 1]
    /\ UNCHANGED <<last, nOps, clientVars, tool, applied>>

\* GET /watchlist while the write request (if any) is in flight
ConcList ==
    /\ nOps < MaxOps
    /\ LET r == get_watchlist(ReaderView(db, conn))
       IN  last' = [op |-> "list", film_id |-> 0, type |-> NULL, genres |-> <<>>,
                    update_data |-> NoUpdate, remote |-> NULL, resp |-> r.resp,
                    log |-> r.log,
                    items |-> IF r.resp = 200 THEN r.val ELSE <<>>]
    /\ conn' = [conn EXCEPT !.readAt = conn.pc]
    /\ nOps' = nOps + 1
    /\ UNCHANGED <<db, clientVars, tool, applied>>

ConcNext == BeginAdd \/ BeginDelete \/ WriterStep \/ ConcList

SpecConc == Init /\ [][ConcNext]_vars

\* Racing deletes.  delete_watchlist_item is a sync route and runs in a
\* worker thread on its own connection; between its existence check and its
\* first DELETE it holds no lock, so another request can be served wholly.

\* POST /watchlist is served while no delete is in flight
RaceAdd ==
    /\ conn.op = "none"
    /\ Add

\* another DELETE /watchlist/{film_id} is served wholly after the existence
\* check of the delete in flight and before its first statement; what the
\* statements of the delete in flight will read is the file as committed
OtherDelete ==
    /\ conn.op = "delete"
    /\ conn.pc = 1
    /\ nOps < MaxOps
    /\ \E film_id \in FilmIds :
       \E r \in {delete_watchlist_item(db, film_id, 0)} :
            /\ db' = r.db
            /\ last' = Served("delete", film_id, NULL, <<>>, NoUpdate, NULL, r)
            /\ conn' = [conn EXCEPT !.st.db = r.db, !.st.tx = r.db]
    /\ nOps' = nOps + 1
    /\ UNCHANGED <<clientVars, tool, applied>>

\* the delete in flight runs its next statement; after the last one the
\* handler and get_db end the request and its answer is the last one served
RaceStep ==
    /\ conn.op = "delete"
    /\ \E st \in {DeleteStep(conn.st, conn.film_id, conn.pc)} :
         IF DeleteDone(st, conn.pc)
         THEN \E end \in {get_db(DeleteExcept(st))} :
                 /\ db' = end.db
                 /\ conn' = NoConn
                 /\ last' = Served("delete", conn.film_id, NULL, <<>>, NoUpdate,
                                   NULL, end)
         ELSE /\ db' = st.db
              /\ conn' = [conn EXCEPT !.st = st, !.pc = @ + 1]
              /\ last' = last
    /\ UNCHANGED <<nOps, clientVars, tool, applied>>

RaceNext == RaceAdd \/ BeginDelete \/ OtherDelete \/ RaceStep

SpecRace == Init /\ [][RaceNext]_vars

\* the agent calls add_to_my_watchlist
ToolAdd ==
    /\ nOps < MaxOps
    /\ \E film_id \in FilmIds, type \in MediaTypes :
         \E answer \in RemoteAnswers(type, film_id), fault \in AddStatements :
         \E t \in {add_to_my_watchlist_tool(db, film_id, type, answer, fault)} :
            LET genres == IF answer.outcome = "ok" THEN t.r.val.genres ELSE <<>>
            IN  /\ fault <= t.r.step
                /\ db' = t.r.db
                /\ last' = Served("add", film_id, type, genres, NoUpdate,
                                  answer.outcome, t.r)
                /\ tool' = [name |-> "add_to_my_watchlist", film_id |-> film_id,
                            status |-> NULL, watched_date_str |-> NULL,
                            fault |-> fault, sent |-> t.sent, result |-> t.result]
    /\ nOps' = nOps + 1
    /\ UNCHANGED <<clientVars, conn, applied>>

\* the agent calls update_my_watchlist_item
ToolUpdate ==
    /\ nOps < MaxOps
    /\ \E film_id \in FilmIds, status \in PatchStatuses \cup {NULL},
          watched_date_str \in ToolDateStrings, fault \in UpdateStatements :
         \E t \in {update_my_watchlist_item_tool(db, film_id, status,
                                                 watched_date_str, fault)} :
                /\ fault <= t.r.step
                /\ db' = t.r.db
                /\ last' = IF t.sent
                           THEN Served("update", film_id, NULL, <<>>, t.update_data,
                                       NULL, t.r)
                           ELSE last
                /\ tool' = [name |-> "update_my_watchlist_item", film_id |-> film_id,
                            status |-> status, watched_date_str |-> watched_date_str,
                            fault |-> fault, sent |-> t.sent, result |-> t.result]
    /\ nOps' = nOps + 1
    /\ UNCHANGED <<clientVars, conn, applied>>

ToolNext == ToolAdd \/ ToolUpdate

SpecTool == Init /\ [][ToolNext]_vars

\* _map_tmdb_to_filmbase is applied to a raw item
Normalize ==
    /\ applied = NoApplied
    /\ \E item \in RawItems, media_type \in MediaTypes :
         applied' = [fn |-> "_map_tmdb_to_filmbase", media_type |-> media_type,
                     item |-> item, raised |-> MapRaises(item, media_type),
                     out |-> IF MapRaises(item, media_type) = NULL
                             THEN <<_map_tmdb_to_filmbase(item, media_type)>>
                             ELSE <<>>]
    /\ UNCHANGED <<storeVars, clientVars, conn, tool>>

\* search returns for a body whose results are GoodItem and a raw item
SearchResults ==
    /\ applied = NoApplied
    /\ \E item \in RawItems, media_type \in MediaTypes :
         LET data == [results |-> <<GoodItem, item>>]
         IN  applied' = [fn |-> "search", media_type |-> media_type,
                         item |-> item,
                         raised |-> MapResultsRaises(data, media_type),
                         out |-> IF MapResultsRaises(data, media_type) = NULL
                                 THEN MapResults(data, media_type)
                                 ELSE <<>>]
    /\ UNCHANGED <<storeVars, clientVars, conn, tool>>

\* get_details returns for a body that carries the keys of a raw item
DetailsResult ==
    /\ applied = NoApplied
    /\ \E item \in RawItems, media_type \in MediaTypes :
         LET details_data == DetailsOfItem(item)
         IN  applied' = [fn |-> "get_details", media_type |-> media_type,
                         item |-> item,
                         raised |-> get_details_raises(media_type, details_data),
                         out |-> IF get_details_raises(media_type, details_data) = NULL
                                 THEN <<get_details(media_type, details_data).film_base>>
                                 ELSE <<>>]
    /\ UNCHANGED <<storeVars, clientVars, conn, tool>>

\* an operation of the client builds the params of its request
BuildRequest ==
    /\ applied = NoApplied
    /\ \E op \in ClientOps, filters \in FilterMaps :
         /\ op # "discover" => filters = <<>>
         /\ applied' = [fn |-> "_make_request", op |-> op, filters |-> filters,
                        params |-> RequestParams(OpParams(op, filters))]
    /\ UNCHANGED <<storeVars, clientVars, conn, tool>>

PureNext == Normalize \/ SearchResults \/ DetailsResult \/ BuildRequest

SpecPure == Init /\ [][PureNext]_vars

----------------------------------------------------------------------------
(* Properties *)

Tables == {"Film", "Meta", "Genre"}

\* the rows of a table that belong to film id, and the others
RowsOf(t, table, id) == LET Mine(r) == r.film_id = id IN SelectSeq(t[table], Mine)

OtherRows(t, table, id) == LET Else(r) == r.film_id # id IN SelectSeq(t[table], Else)

NoRowsOf(t, id) == \A table \in Tables : RowsOf(t, table, id) = <<>>

\* the statement was issued and went through / raised
Wrote(log, stmt) == \E i \in 1..Len(log) : log[i].stmt = stmt /\ log[i].err = NULL

Issued(log, stmt) == \E i \in 1..Len(log) : log[i].stmt = stmt

StorageFault(log) == \E i \in 1..Len(log) : log[i].err = "OperationalError"

Inserts == {"INSERT Film", "INSERT Meta", "INSERT Genre"}

\* C1: an add that fails after its INSERT INTO Film went through (at the
\* Meta insert, a Genre insert or the commit) leaves the three tables as they
\* were before the call, with no Film, Meta or Genre row of that film_id.
C1_AddIsAtomic ==
    [][(/\ last'.op = "add"
        /\ last'.resp >= 400
        /\ Wrote(last'.log, "INSERT Film"))
       => (db' = db /\ NoRowsOf(db', last'.film_id))]_vars

\* an add failed at its second Genre insert, after the Film, Meta and first
\* Genre rows were written, while another film is stored
C1_Witness ==
    /\ last.op = "add"
    /\ last.resp >= 400
    /\ Wrote(last.log, "INSERT Film")
    /\ Wrote(last.log, "INSERT Meta")
    /\ Wrote(last.log, "INSERT Genre")
    /\ \E i \in 1..Len(last.log) :
          last.log[i].stmt = "INSERT Genre" /\ last.log[i].err # NULL
    /\ Len(db.Film) = 1

\* C2: in every reachable state each Meta row and each Genre row has the
\* film_id of a Film row, and after a successful delete of an id no row of
\* any table carries that id.
C2_ReferentialIntegrity ==
    /\ \A table \in {"Meta", "Genre"} : \A i \in 1..Len(db[table]) :
          RowsOf(db, "Film", db[table][i].film_id) # <<>>
    /\ (last.op = "delete" /\ last.resp = 204) => NoRowsOf(db, last.film_id)

\* a film whose Genre rows were deleted is gone while another film with
\* Meta and Genre rows stays
C2_Witness ==
    /\ last.op = "delete"
    /\ last.resp = 204
    /\ \E i \in 1..Len(last.log) :
          last.log[i].stmt = "DELETE Genre" /\ last.log[i].rowcount = 2
    /\ db.Meta # <<>>
    /\ db.Genre # <<>>

\* C3: an add of an id that is already stored, with the remote fetch
\* succeeding and no storage fault striking, answers 409 and changes no table;
\* an add answers 201 only for an id that was not stored, and then the store
\* holds exactly one Film row, one Meta row and the fetched genres, in order,
\* for that id; no state holds two Film rows of one id.
C3_DuplicateAddRejected ==
    [][/\ (/\ last'.op = "add"
           /\ last'.remote = "ok"
           /\ ~StorageFault(last'.log)
           /\ RowsOf(db, "Film", last'.film_id) # <<>>)
          => (last'.resp = 409 /\ db' = db)
       /\ (last'.op = "add" /\ last'.resp = 201)
          => (/\ NoRowsOf(db, last'.film_id)
              /\ Len(RowsOf(db', "Film", last'.film_id)) = 1
              /\ Len(RowsOf(db', "Meta", last'.film_id)) = 1
              /\ LET g == RowsOf(db', "Genre", last'.film_id)
                 IN  [i \in 1..Len(g) |-> g[i].name] = last'.genres)
       /\ \A id \in FilmIds : Len(RowsOf(db', "Film", id)) <= 1]_vars

\* the second add of a stored film was refused at its INSERT INTO Film; the
\* film keeps the two Genre rows of the first add
C3_Witness ==
    /\ last.op = "add"
    /\ last.resp = 409
    /\ last.remote = "ok"
    /\ \E i \in 1..Len(last.log) :
          last.log[i].stmt = "INSERT Film" /\ last.log[i].err = "IntegrityError"
    /\ Len(RowsOf(db, "Film", last.film_id)) = 1
    /\ Len(RowsOf(db, "Meta", last.film_id)) = 1
    /\ Len(RowsOf(db, "Genre", last.film_id)) = 2

\* C4: in every reachable state every Film row's status is one of
\* PlanToWatch, Watching, Watched, Dropped, OnHold.
C4_StatusDomain ==
    \A i \in 1..Len(db.Film) : db.Film[i].status \in Statuses

\* C5: a successful delete of a stored film_id removes every Genre row, the
\* Meta row and the Film row of that id, by DELETE FROM Genre, then Meta,
\* then Film, then one commit, and leaves every other row of the three
\* tables as it was.
C5_DeleteRemovesRowSet ==
    [][(last'.op = "delete" /\ last'.resp = 204)
       => (/\ RowsOf(db, "Film", last'.film_id) # <<>>
           /\ NoRowsOf(db', last'.film_id)
           /\ \A table \in Tables :
                 db'[table] = OtherRows(db, table, last'.film_id)
           /\ [i \in 1..Len(last'.log) |-> last'.log[i].stmt]
                 = <<"DELETE Genre", "DELETE Meta", "DELETE Film", "COMMIT">>)]_vars

\* a film with its Meta row and two Genre rows was deleted and the other
\* stored film still has its rows
C5_Witness ==
    /\ last.op = "delete"
    /\ last.resp = 204
    /\ \E i \in 1..Len(last.log) :
          last.log[i].stmt = "DELETE Genre" /\ last.log[i].rowcount = 2
    /\ \E i \in 1..Len(last.log) :
          last.log[i].stmt = "DELETE Meta" /\ last.log[i].rowcount = 1
    /\ Len(db.Film) = 1
    /\ Len(db.Meta) = 1
    /\ Len(db.Genre) = 1

\* C6: a delete of a film_id that has no Film row answers 404 and leaves the
\* three tables unchanged.
C6_DeleteAbsent ==
    [][(last'.op = "delete" /\ RowsOf(db, "Film", last'.film_id) = <<>>)
       => (last'.resp = 404 /\ db' = db /\ last'.log = <<>>)]_vars

\* a delete of an absent id was answered 404 while another film is stored
C6_Witness ==
    /\ last.op = "delete"
    /\ last.resp = 404
    /\ Len(db.Film) = 1
    /\ db.Genre # <<>>

\* the Film row of id in t (the first one)
FilmRow(t, id) == RowsOf(t, "Film", id)[1]

\* C7: an update changes nothing but the status and watched_date of the
\* Film row it targets: Meta, Genre, the other Film rows and the row's
\* film_id, title, release_date and type stay; when its UPDATE is committed
\* each field the patch supplies takes the supplied value (NULL when supplied
\* as null) and each field it omits keeps its value; when nothing is
\* committed the row is unchanged.
C7_PartialUpdate ==
    [][(last'.op = "update")
       => (/\ db'.Meta = db.Meta
           /\ db'.Genre = db.Genre
           /\ Len(db'.Film) = Len(db.Film)
           /\ \A i \in 1..Len(db.Film) :
                 LET old == db.Film[i]
                     new == db'.Film[i]
                 IN  IF old.film_id # last'.film_id \/ ~Wrote(last'.log, "COMMIT")
                     THEN new = old
                     ELSE /\ \A c \in DOMAIN old \ PatchFields : new[c] = old[c]
                          /\ \A c \in PatchFields :
                                new[c] = IF c \in last'.update_data.fields_set
                                         THEN last'.update_data[c]
                                         ELSE old[c])]_vars

\* the example of the specification: a film with status Watching was patched
\* with a watched date alone and is still Watching
C7_Witness ==
    /\ last.op = "update"
    /\ last.resp = 200
    /\ last.update_data.fields_set = {"watched_date"}
    /\ last.update_data.watched_date \in Dates
    /\ FilmRow(db, last.film_id).status = "Watching"
    /\ FilmRow(db, last.film_id).watched_date = last.update_data.watched_date

\* C8: an update of a film_id with no Film row answers 404, also when the
\* patch is empty; an update of a stored film with an empty patch answers
\* 400; in both cases no statement that writes is issued and the tables are
\* unchanged.
C8_UpdateErrors ==
    [][(last'.op = "update")
       => (/\ RowsOf(db, "Film", last'.film_id) = <<>>
                 => (last'.resp = 404 /\ last'.log = <<>> /\ db' = db)
           /\ (/\ RowsOf(db, "Film", last'.film_id) # <<>>
               /\ last'.update_data.fields_set = {})
                 => (last'.resp = 400 /\ last'.log = <<>> /\ db' = db))]_vars

\* an update with an empty patch of an absent id was answered 404 while
\* another film is stored
C8_Witness ==
    /\ last.op = "update"
    /\ last.resp = 404
    /\ last.update_data.fields_set = {}
    /\ Len(db.Film) = 1
    /\ RowsOf(db, "Film", last.film_id) = <<>>

\* C9: whenever an update returns an error outcome, the Film rows are as
\* they were before the call.
C9_UpdateAllOrNothing ==
    [][(last'.op = "update" /\ last'.resp >= 400) => db'.Film = db.Film]_vars

\* C10: when the remote fetch of an add fails, no INSERT is issued and the
\* tables are unchanged; in every add the fetch is the first entry of the
\* log and every INSERT comes after a fetch that succeeded.
C10_RemoteFailureBlocksWrite ==
    [][(last'.op = "add")
       => (/\ last'.log # <<>>
           /\ last'.log[1].stmt = "get_details"
           /\ \A i \in 1..Len(last'.log) :
                 last'.log[i].stmt \in Inserts
                    => (i > 1 /\ last'.log[1].err = NULL /\ last'.remote = "ok")
           /\ last'.remote # "ok"
                 => (/\ db' = db
                     /\ last'.resp >= 400
                     /\ \A s \in Inserts : ~Issued(last'.log, s)))]_vars

\* an add whose fetch failed was refused while another film is stored
C10_Witness ==
    /\ last.op = "add"
    /\ last.remote = "HTTPStatusError"
    /\ last.resp >= 400
    /\ last.log[1].stmt = "get_details"
    /\ last.log[1].err = "HTTPStatusError"
    /\ Len(db.Film) = 1

\* C11: an add answers 201 when it creates the row set, 409 when the film_id
\* is already stored (the fetch succeeding, no storage fault), and 502 when
\* the remote details fetch fails.
C11_AddOutcomeCodes ==
    [][(last'.op = "add")
       => (/\ db' # db => last'.resp = 201
           /\ (/\ last'.remote = "ok"
               /\ ~StorageFault(last'.log)
               /\ RowsOf(db, "Film", last'.film_id) # <<>>) => last'.resp = 409
           /\ last'.remote # "ok" => last'.resp = 502)]_vars

\* C12: the Film row an add creates has status PlanToWatch and no
\* watched_date, whatever status the remote body carries, and no request
\* other than an update changes the status or the watched_date of a stored
\* Film row.
C12_AddForcesInitialState ==
    [][/\ (last'.op = "add" /\ last'.resp = 201)
          => (/\ FilmRow(db', last'.film_id).status = "PlanToWatch"
              /\ FilmRow(db', last'.film_id).watched_date = NULL)
       /\ (last'.op # "update")
          => \A id \in FilmIds :
                (RowsOf(db, "Film", id) # <<>> /\ RowsOf(db', "Film", id) # <<>>)
                   => (/\ FilmRow(db', id).status = FilmRow(db, id).status
                       /\ FilmRow(db', id).watched_date = FilmRow(db, id).watched_date)]_vars

\* a movie, whose remote body says Released and carries a date, was added
\* as PlanToWatch with no watched_date, next to a film stored before
C12_Witness ==
    /\ last.op = "add"
    /\ last.resp = 201
    /\ last.type = "movie"
    /\ Len(db.Film) = 2
    /\ FilmRow(db, last.film_id).status = "PlanToWatch"
    /\ FilmRow(db, last.film_id).watched_date = NULL
    /\ FilmRow(db, last.film_id).release_date # NULL

\* C13: in every reachable state each Film row has exactly one Meta row
\* with its film_id.
C13_OneMetaPerFilm ==
    \A i \in 1..Len(db.Film) : Len(RowsOf(db, "Meta", db.Film[i].film_id)) = 1

\* a film was added again after its delete, next to another stored film,
\* each with its one Meta row
C13_Witness ==
    /\ last.op = "add"
    /\ last.resp = 201
    /\ nOps = 3
    /\ Len(db.Film) = 1
    /\ Len(db.Meta) = 1
    /\ db.Meta[1].film_id = db.Film[1].film_id

\* C14: a call that starts while the last-seen remaining count is at or
\* below 1 and the last-seen reset time is in the future does not send its
\* request to the remote service before that reset time.
C14_RateLimitThrottle ==
    \A c \in Calls :
       (/\ calls[c].sentAt # -1
        /\ calls[c].start.remaining <= 1
        /\ calls[c].start.reset_time > calls[c].start.now)
          => calls[c].sentAt >= calls[c].start.reset_time

\* the previous call was answered remaining 1 and a reset time ahead; the
\* next call started before that time, slept, and has sent its request at
\* or after it
C14_Witness ==
    /\ calls[1].pc \in {"sleep_after", "done"}
    /\ calls[2].pc = "await"
    /\ calls[2].start.remaining = 1
    /\ calls[2].start.reset_time > calls[2].start.now
    /\ calls[2].sentAt >= calls[2].start.reset_time

\* the names of the Genre rows of a film, in insertion order, as the
\* response carries a list of names: <<>> for no list, else <<the list>>
StoredGenres(t, id) ==
    LET g == RowsOf(t, "Genre", id)
    IN  IF g = <<>> THEN <<>> ELSE <<[i \in 1..Len(g) |-> Chars[g[i].name]]>>

\* C15: in every state reachable by add, update and delete, GET /watchlist
\* answers 200 with exactly one entry per Film row, in row order, whether or
\* not Meta or Genre rows exist for it; a film without Genre rows yields an
\* entry with no genres.
C15_ListOnePerFilm ==
    (last.op = "list")
       => (/\ last.resp = 200
           /\ Len(last.items) = Len(db.Film)
           /\ \A i \in 1..Len(db.Film) :
                 /\ last.items[i].film_id = db.Film[i].film_id
                 /\ RowsOf(db, "Genre", db.Film[i].film_id) = <<>>
                       => last.items[i].genres = <<>>)

\* C16: for every film, the genre list GET /watchlist returns holds exactly
\* the names add stored for it (names with a comma included), in insertion
\* order.
C16_GenreRoundTrip ==
    (last.op = "list" /\ last.resp = 200)
       => \A i \in 1..Len(last.items) :
             last.items[i].genres = StoredGenres(db, last.items[i].film_id)

\* the remote service answers (would answer) the request with success
RemoteOk(call) == call.response.outcome = "response" /\ call.response.status = 200

\* C17: GET /genres/{type} answers 200 when the remote service answers the
\* genre request successfully, and answers a failure only when the remote
\* call fails.
C17_GenresOperation ==
    \A c \in Calls :
       (calls[c].pc = "done" /\ calls[c].route = "genres")
          => (RemoteOk(calls[c]) <=> calls[c].resp = 200)

\* the statuses of a gateway failure
GatewayStatuses == {502, 503, 504}

\* C18: whenever the remote call of search, details, trending or discover
\* fails (a non-success status of the remote service, or a transport
\* failure), the route answers with a 502-class status.
C18_GatewayFailureMapping ==
    \A c \in Calls :
       (/\ calls[c].pc = "done"
        /\ calls[c].route \in {"search", "details", "trending", "discover"}
        /\ ~RemoteOk(calls[c]))
          => calls[c].resp \in GatewayStatuses

\* the genre list of an entry whose film has all the Genre rows of its add
FullGenresList == GenresList(<<Join([i \in 1..MaxGenres |-> Chars[NameAt(i)]], ",")>>)

\* C19: a GET /watchlist that runs while an add or a delete is in flight
\* returns no half-written row set: every entry it returns has the columns
\* of its Meta row and the genres of all the Genre rows of its add, and a
\* film whose add is not committed has no entry.
C19_NoHalfWrittenRead ==
    (last.op = "list")
       => (/\ last.resp = 200
           /\ \A i \in 1..Len(last.items) :
                 /\ last.items[i].plot # NULL
                 /\ last.items[i].genres = FullGenresList
           /\ (conn.op # "none" /\ conn.readAt = conn.pc)
                 => [i \in 1..Len(last.items) |-> last.items[i].film_id]
                       = [i \in 1..Len(conn.st.db.Film) |-> conn.st.db.Film[i].film_id])

\* a GET /watchlist ran after an add had inserted its Film row, its Meta
\* row and the first of its Genre rows, and returned the other film alone
C19_Witness ==
    /\ last.op = "list"
    /\ last.resp = 200
    /\ conn.op = "add"
    /\ conn.pc = 4
    /\ conn.readAt = conn.pc
    /\ Len(conn.st.tx.Film) = 2
    /\ Len(RowsOf(conn.st.tx, "Genre", conn.film_id)) = 1
    /\ Len(last.items) = 1
    /\ last.items[1].film_id # conn.film_id

\* C20: a call of update_my_watchlist_item with watched_date_str None or
\* the empty string, for a stored film and with no storage fault, leaves the
\* film with no watched_date.
C20_ToolClearsWatchedDate ==
    [][(/\ nOps' # nOps
        /\ tool'.name = "update_my_watchlist_item"
        /\ tool'.watched_date_str \in {NULL, ""}
        /\ tool'.fault = 0
        /\ RowsOf(db, "Film", tool'.film_id) # <<>>)
       => FilmRow(db', tool'.film_id).watched_date = NULL]_vars

\* C21: a call of search, get_details, get_trending or discover sends at
\* most one request to the remote service, whatever the request ends in: a
\* call that has returned (with a success or a failure) has sent exactly one,
\* and a call that waits in the throttle before its request has sent none.
C21_NoAutomaticRetry ==
    \A c \in Calls :
        /\ calls[c].sent <= 1
        /\ calls[c].pc \in {"await", "sleep_after"} => calls[c].sent = 1
        /\ calls[c].pc = "done" /\ calls[c].route # "genres" => calls[c].sent = 1
        /\ calls[c].pc \in {"idle", "sleep_before", "request"} => calls[c].sent = 0

\* both calls have returned after a failure of their request, the first an
\* error status of the remote service and the second a transport error, and
\* each has sent one request
C21_Witness ==
    /\ \A c \in Calls : calls[c].pc = "done" /\ calls[c].route # "genres"
                          /\ calls[c].sent = 1
    /\ calls[1].response.status # 200
    /\ calls[2].response.outcome = "ConnectError"

\* a call that has started and not yet sent its request, and that started
\* with a last-seen remaining count of at most 1
StartedThrottled(c) ==
    /\ calls[c].pc \in {"sleep_before", "request"}
    /\ calls[c].start.remaining <= 1

\* C22: under a clock that advances, a call that starts with a last-seen
\* remaining count of at most 1 eventually sends its request and eventually
\* returns, also when its response again reports a remaining count of at
\* most 1.
C22_ThrottleLiveness ==
    \A c \in Calls :
        StartedThrottled(c) ~> (calls[c].pc = "done" /\ calls[c].sent = 1)

\* a call that started with at most 1 remaining before the reset time has
\* waited, has sent its request, and waits again after a response that
\* reports at most 1 remaining
C22_Witness ==
    \E c \in Calls :
        /\ calls[c].pc = "sleep_after"
        /\ calls[c].sent = 1
        /\ calls[c].start.remaining <= 1
        /\ calls[c].start.reset_time > calls[c].start.now
        /\ RATE_LIMIT_REMAINING <= 1
        /\ calls[c].wake > now

\* C27: whenever a call sends its request, the last-seen remaining count is
\* above 1 or the clock has reached the last-seen reset time.
C27_ThrottleUnderInterleaving ==
    [][\A c \in Calls :
          calls'[c].sent = calls[c].sent + 1
          => (RATE_LIMIT_REMAINING > 1 \/ now >= RATE_LIMIT_RESET_TIME)]_vars

\* the calendar date a date text of the raw items denotes, NULL for a text
\* that denotes none
DateOfText ==
    [x \in RawDates \cup {"2002-06-09"} |->
        IF x \in {"2021-10-22", "2002-06-09"} THEN x
        ELSE IF x = "2021-1-5" THEN "2021-01-05"
        ELSE NULL]

\* C23: an item normalised as movie has its title from `title`, its date
\* from `release_date` and type movie; normalised as tv it has its title
\* from `name`, its date from `first_air_date` and type series; film_id is
\* the id of the item in both cases.
C23_MediaTypeFieldMapping ==
    (applied.fn = "_map_tmdb_to_filmbase" /\ applied.raised = NULL)
    => LET item == applied.item
           out == applied.out[1]
       IN  /\ out.film_id = item.id
           /\ applied.media_type = "movie"
              => /\ out.type = "movie"
                 /\ "title" \in DOMAIN item => out.title = item.title
                 /\ out.release_date = DateOfText[Get(item, "release_date", NULL)]
           /\ applied.media_type = "tv"
              => /\ out.type = "series"
                 /\ "name" \in DOMAIN item => out.title = item.name
                 /\ out.release_date = DateOfText[Get(item, "first_air_date", NULL)]

\* an item that carries the keys of both media types was normalised as tv
C23_Witness ==
    /\ applied.fn = "_map_tmdb_to_filmbase"
    /\ applied.media_type = "tv"
    /\ applied.raised = NULL
    /\ applied.item = [id |-> 2, title |-> "Dune", name |-> "The Wire",
                       release_date |-> "2021-10-22", first_air_date |-> "2002-06-09"]
    /\ applied.out = <<[film_id |-> 2, title |-> "The Wire",
                        release_date |-> "2002-06-09", type |-> "series",
                        status |-> "PlanToWatch", watched_date |-> NULL]>>

\* the text of the date key of the media type, NULL when the key is missing
DateText(item, media_type) ==
    Get(item, IF media_type = "movie" THEN "release_date" ELSE "first_air_date", NULL)

\* the item carries no title under the key of the media type, or a string
TitleIsText(item, media_type) ==
    Get(item, IF media_type = "movie" THEN "title" ELSE "name", "N/A") # NULL

\* C24: an item whose date is missing, null, empty or a text that strptime
\* rejects for "%Y-%m-%d" is normalised with no release_date, and neither
\* the normalisation nor a search or get_details whose body holds the item
\* fails over the date (they fail only for an item whose title is null).
C24_UnparsableDateTolerance ==
    (/\ applied.fn \in {"_map_tmdb_to_filmbase", "search", "get_details"}
     /\ DateOfText[DateText(applied.item, applied.media_type)] = NULL)
    => /\ applied.raised = NULL <=> TitleIsText(applied.item, applied.media_type)
       /\ applied.raised = NULL
          => applied.out[Len(applied.out)].release_date = NULL

\* a search whose second result has the date 22/10/2021 returned both
\* films, the second with no release_date
C24_Witness ==
    /\ applied.fn = "search"
    /\ applied.media_type = "movie"
    /\ DateText(applied.item, "movie") = "22/10/2021"
    /\ applied.raised = NULL
    /\ Len(applied.out) = 2
    /\ applied.out[1].release_date = "2021-10-22"
    /\ applied.out[2].release_date = NULL
    /\ applied.out[2].film_id = applied.item.id

\* C28: the api_key of the params an operation of the client sends is the
\* configured credential, whatever the caller supplied, a discover filter
\* map with the key api_key included; the other filters are sent on.
C28_CredentialNotCallerControlled ==
    applied.fn = "_make_request"
    => /\ "api_key" \in DOMAIN applied.params
       /\ applied.params["api_key"] = TMDB_API_KEY
       /\ \A k \in DOMAIN applied.filters \ {"api_key"} :
             k \in DOMAIN applied.params

\* discover was called with a filter map whose api_key is the caller's own
\* key, next to another filter that was sent on
C28_Witness ==
    /\ applied.fn = "_make_request"
    /\ applied.op = "discover"
    /\ "api_key" \in DOMAIN applied.filters
    /\ applied.filters["api_key"].v = <<"caller-key">>
    /\ applied.filters["api_key"].kind = "str"
    /\ "with_genres" \in DOMAIN applied.filters
    /\ applied.params = [api_key |-> TMDB_API_KEY, with_genres |-> "28,12"]

\* C25: an add is answered 409 only when a Film row with its film_id was
\* stored before the request.
C25_ConflictMeansDuplicate ==
    [][(/\ nOps' # nOps
        /\ last'.op = "add"
        /\ last'.resp = 409)
       => RowsOf(db, "Film", last'.film_id) # <<>>]_vars

\* C26: a delete whose existence check passed and whose DELETE statements
\* then find the Film row gone (rowcount 0), because another delete of the
\* same film was served in between, is answered 404.
C26_RacingDeletes ==
    [][(/\ conn.op = "delete"
        /\ conn.pc = 4
        /\ conn.st.err = NULL
        /\ conn.st.rowcount = 0
        /\ conn'.op = "none")
       => last'.resp = 404]_vars

====
